---- MODULE Spec2Model ----
(***************************************************************************)
(* A model of the retrieval-augmented generation service: the preference   *)
(* store (preference_manager.py, db_manager.py), the per-category vector   *)
(* stores (vector_manager.py), the text classifier (classifiers.py) and    *)
(* the two generation pipelines (ai_editor.py) with the streaming endpoint *)
(* that wraps one of them (app.py).                                        *)
(*                                                                         *)
(* Python strings whose characters matter (classifier output, category     *)
(* labels, streamed fragments) are sequences of one-character strings;     *)
(* texts of which only equality matters are atomic strings.                *)
(***************************************************************************)
EXTENDS Integers, Sequences, FiniteSets, TLC

VARIABLES
    prefTable,      \* the user_preferences table, in insertion (id) order
    dbManagerReady, \* UserPreferenceManager.db_manager is not None
    llmCalls,       \* invocations of the summarization chain so far
    lastOp,         \* the last completed call of the preference manager
    retrieved,      \* the scored documents a retrieval returned
    passedOn,       \* the documents retrieve_docs passed on from them
    filteredBy,     \* which pipeline's retrieve_docs did it
    disk,           \* vector_stores/<text_type>: the two files save_local writes
    cache,          \* VectorStoreManager.vector_stores of each instance
    loads,          \* per instance and text_type, the times FAISS.load_local
                    \* has returned a store
    nextBuild,      \* the number the next build gets
    build,          \* the save_vector_store call in progress, if any
    completed,      \* per text_type, the builds that returned True, in order
    lastCall,       \* the last step of the store: a search that returned,
                    \* or a step of a build
    gen             \* the generation request in progress, if any

prefVars == <<prefTable, dbManagerReady, llmCalls, lastOp>>
filterVars == <<retrieved, passedOn, filteredBy>>
storeVars == <<disk, cache, loads, nextBuild, build, completed, lastCall>>
vars == <<prefVars, filterVars, storeVars, gen>>

----------------------------------------------------------------------------
(* Bounds of the model *)

MaxRecords == 4
MaxLlmCalls == 3
MaxDocs == 3
MaxBuilds == 2
MaxChunks == 2
MaxUrls == 2

----------------------------------------------------------------------------
(* Strings as character sequences: str.strip() and str.lower() *)

Whitespace == {" ", "\n", "\t"}

UpperSeq == <<"A","B","C","D","E","F","G","H","I","J","K","L","M",
              "N","O","P","Q","R","S","T","U","V","W","X","Y","Z">>
LowerSeq == <<"a","b","c","d","e","f","g","h","i","j","k","l","m",
              "n","o","p","q","r","s","t","u","v","w","x","y","z">>

LowerChar(c) ==
    IF \E i \in 1..Len(UpperSeq) : UpperSeq[i] = c
    THEN LowerSeq[CHOOSE i \in 1..Len(UpperSeq) : UpperSeq[i] = c]
    ELSE c

Lower(s) == [i \in 1..Len(s) |-> LowerChar(s[i])]

RECURSIVE LStrip(_)
LStrip(s) ==
    IF s # <<>> /\ Head(s) \in Whitespace THEN LStrip(Tail(s)) ELSE s

RECURSIVE RStrip(_)
RStrip(s) ==
    IF s # <<>> /\ s[Len(s)] \in Whitespace
    THEN RStrip(SubSeq(s, 1, Len(s) - 1))
    ELSE s

Strip(s) == RStrip(LStrip(s))

----------------------------------------------------------------------------
(* Category labels *)

Academic  == <<"a","c","a","d","e","m","i","c">>
Technical == <<"t","e","c","h","n","i","c","a","l">>
Creative  == <<"c","r","e","a","t","i","v","e">>
Business  == <<"b","u","s","i","n","e","s","s">>
General   == <<"g","e","n","e","r","a","l">>

TEXT_TYPES == {Academic, Technical, Creative, Business}

----------------------------------------------------------------------------
(* The text classifier (classifiers.py) *)

\* What the classification chain can return.
RawOutputs ==
    { Creative,
      <<" ","C","r","e","a","t","i","v","e","\n">>,
      <<"B","U","S","I","N","E","S","S">>,
      <<"\t","b","u","s","i","n","e","s","s"," "," ">>,
      Academic \o <<".">>,
      General,
      <<"n","o","n","s","e","n","s","e">>,
      <<" ">> }

\* The chain raising instead of returning.
LlmRaises == <<"<raises>">>

\* classify without result.strip().lower()
ClassifyAsIs(raw) == IF raw \notin TEXT_TYPES THEN Creative ELSE raw

\* TextTypeClassifier.classify, given what the chain returned.
Classify(raw) ==
    LET result == Lower(Strip(raw))
    IN IF result \notin TEXT_TYPES THEN Creative ELSE result

----------------------------------------------------------------------------
(* The preference store *)

DefaultUser == "default"

\* Texts handed to analyze_edits: only their equality is read.
Texts == {"v1", "v2"}
\* What the summarization chain can return.
Summaries == {"s1", "s2"}
NoSummary == "none"
\* text_type arguments of analyze_edits and get_preferences.
PrefTypes == {General, Academic, Business}

PreferenceRecord(user, textType, key, value) ==
    [user_id |-> user, text_type |-> textType,
     preference_key |-> key, preference_value |-> value]

\* DatabaseManager.save_preference with the row accepted: one row more.
SavePreferenceOk(table, user, textType, key, value) ==
    Append(table, PreferenceRecord(user, textType, key, value))

\* DatabaseManager.save_preference: the row is inserted and True returned, or
\* the insert raises, the exception is printed and False returned.
SavePreference(table, ok, user, textType, key, value) ==
    IF ok THEN SavePreferenceOk(table, user, textType, key, value) ELSE table

\* The preference_value of the rows of (user, textType), in table order.
RECURSIVE FilterValues(_, _, _)
FilterValues(table, user, textType) ==
    IF table = <<>> THEN <<>>
    ELSE LET rest == FilterValues(Tail(table), user, textType)
             r == Head(table)
         IN IF r.user_id = user /\ r.text_type = textType
            THEN <<r.preference_value>> \o rest
            ELSE rest

\* values without its i-th element.
Without(values, i) ==
    [k \in 1..(Len(values) - 1) |-> IF k < i THEN values[k] ELSE values[k + 1]]

\* The orders a query without ORDER BY can return its rows in: any row
\* first, the others after it in any order.
RECURSIVE Orders(_)
Orders(values) ==
    IF values = <<>> THEN {<<>>}
    ELSE UNION {{<<values[i]>> \o rest : rest \in Orders(Without(values, i))} :
                  i \in 1..Len(values)}

\* DatabaseManager.get_preferences(user, textType): what it can return.
\* UserPreference.objects.filter(user_id=, text_type=).values_list(
\* 'preference_value', flat=True) has no order_by and the model no
\* Meta.ordering, so the rows come in the order the database chooses;
\* [] when the query raises (ok false).
DbGetPreferences(table, ok, user, textType) ==
    IF ok THEN Orders(FilterValues(table, user, textType)) ELSE {<<>>}

NoOp == [op |-> "none"]

InitPrefs ==
    /\ prefTable = <<>>
    /\ dbManagerReady = FALSE
    /\ llmCalls = 0
    /\ lastOp = NoOp

\* The short-circuit of analyze_edits: the two texts are equal.
UneditedNever(original, edited) == FALSE

Unedited(original, edited) == original = edited

\* analyze_edits without the second save under "general".
AfterSavesNoGeneral(table, textType, summary, ok1, ok2) ==
    SavePreference(table, ok1, DefaultUser, textType, "llm_analysis", summary)

\* The table after the saves of analyze_edits, given the summary and which
\* of the two saves the database accepted.
AfterSaves(table, textType, summary, ok1, ok2) ==
    LET t1 == SavePreference(table, ok1, DefaultUser, textType,
                             "llm_analysis", summary)
    IN IF textType # General
       THEN SavePreference(t1, ok2, DefaultUser, General,
                           "llm_analysis", summary)
       ELSE t1

\* A call made on the assistant itself, through no endpoint.
Direct == <<>>

\* The answer of the /record-edit handler: {"status": "success"} when
\* record_user_edit returns, status 500 when it raises.
RecordEditResponse(outcome) ==
    IF outcome = "returned" THEN [status |-> 200, body |-> "success"]
    ELSE [status |-> 500]

\* The record of a call, with the answer of the endpoint it came through.
Recorded(caller, record) ==
    IF DOMAIN caller = {} THEN record
    ELSE record @@ caller
                @@ [response |-> RecordEditResponse(record.outcome)]

\* UserPreferenceManager.analyze_edits(original, edited, textType).
\*   ctorOk : get_mysql_preference_manager() returns (read when db_manager
\*            is None); otherwise it raises out of analyze_edits
\*   llmOut : the summary the chain returns, or NoSummary when it raises
\*   ok1,ok2: whether the database accepts the first and the second save
\* caller is Direct, or what the endpoint adds to the record of the call.
AnalyzeEditsThen(caller, original, edited, textType, ctorOk, llmOut, ok1, ok2) ==
    LET call == [op |-> "analyze_edits", original |-> original,
                 edited |-> edited, text_type |-> textType,
                 before |-> prefTable, callsBefore |-> llmCalls]
    IN
    /\ Len(prefTable) + 2 <= MaxRecords
    /\ llmCalls < MaxLlmCalls
    /\ IF ~dbManagerReady /\ ~ctorOk
       THEN \* _ensure_db_manager raises
            /\ lastOp' = Recorded(caller, call @@ [outcome |-> "ctor_raised",
                                         summary |-> NoSummary,
                                         saved1 |-> FALSE, saved2 |-> FALSE])
            /\ UNCHANGED <<prefTable, dbManagerReady, llmCalls>>
       ELSE /\ dbManagerReady' = TRUE
            /\ IF Unedited(original, edited)
               THEN /\ lastOp' = Recorded(caller, call @@ [outcome |-> "returned",
                                                 summary |-> NoSummary,
                                                 saved1 |-> FALSE,
                                                 saved2 |-> FALSE])
                    /\ UNCHANGED <<prefTable, llmCalls>>
               ELSE /\ llmCalls' = llmCalls + 1
                    /\ IF llmOut = NoSummary
                       THEN \* summarize_chain.invoke raises
                            /\ lastOp' = Recorded(caller, call @@
                                 [outcome |-> "llm_raised",
                                  summary |-> NoSummary,
                                  saved1 |-> FALSE, saved2 |-> FALSE])
                            /\ UNCHANGED prefTable
                       ELSE /\ prefTable' = AfterSaves(prefTable, textType,
                                                       llmOut, ok1, ok2)
                            /\ lastOp' = Recorded(caller, call @@
                                 [outcome |-> "returned", summary |-> llmOut,
                                  saved1 |-> ok1,
                                  saved2 |-> (textType # General /\ ok2)])

\* A direct call of analyze_edits.
AnalyzeEdits(original, edited, textType, ctorOk, llmOut, ok1, ok2) ==
    AnalyzeEditsThen(Direct, original, edited, textType, ctorOk, llmOut,
                     ok1, ok2)

\* The ways _ensure_db_manager can go: get_mysql_preference_manager() is
\* called only while db_manager is None.
CtorOutcomes == IF dbManagerReady THEN {TRUE} ELSE BOOLEAN

\* The ways summarize_chain.invoke can go; it is not called for equal texts.
ChainOutcomes(original, edited) ==
    IF Unedited(original, edited) THEN {NoSummary}
    ELSE Summaries \cup {NoSummary}

\* The ways the two saves can go; there is none without a summary.
SaveOutcomes(llmOut) ==
    IF llmOut = NoSummary THEN {<<TRUE, TRUE>>} ELSE BOOLEAN \X BOOLEAN

RecordEdit ==
    \E original \in Texts, edited \in Texts, textType \in PrefTypes,
       ctorOk \in CtorOutcomes :
        \E llmOut \in ChainOutcomes(original, edited) :
           \E ok \in SaveOutcomes(llmOut) :
              AnalyzeEdits(original, edited, textType, ctorOk, llmOut,
                           ok[1], ok[2])

\* UserPreferenceManager.get_preferences(text_type), as enhance_context and
\* GET /preferences/{text_type} call it: _ensure_db_manager, which raises
\* when the manager cannot be constructed, then
\* self.db_manager.get_preferences("default", text_type).
GetPreferences(textType, ctorOk, queryOk) ==
    LET call == [op |-> "get_preferences", user_id |-> DefaultUser,
                 text_type |-> textType, before |-> prefTable]
    IN IF ~dbManagerReady /\ ~ctorOk
       THEN /\ lastOp' = call @@ [outcome |-> "ctor_raised",
                                  queried |-> FALSE, result |-> <<>>]
            /\ UNCHANGED <<prefTable, dbManagerReady, llmCalls>>
       ELSE /\ dbManagerReady' = TRUE
            /\ \E result \in DbGetPreferences(prefTable, queryOk,
                                               DefaultUser, textType) :
                  lastOp' = call @@ [outcome |-> "returned",
                                     queried |-> queryOk, result |-> result]
            /\ UNCHANGED <<prefTable, llmCalls>>

ReadPreferences ==
    \E textType \in PrefTypes \cup {Creative}, ctorOk \in CtorOutcomes,
       queryOk \in BOOLEAN : GetPreferences(textType, ctorOk, queryOk)

\* text_type left out of the body of /record-edit.
NoTextType == <<"<None>">>

\* AIEditorAssistant.record_user_edit(original_text, edited_text, user_id):
\* self.preference_manager.analyze_edits(original_text, edited_text), with
\* analyze_edits taking its default text_type, "general".
RecordUserEdit(caller, original, edited, userId, ctorOk, llmOut, ok1, ok2) ==
    AnalyzeEditsThen(caller, original, edited, General, ctorOk, llmOut,
                     ok1, ok2)

\* POST /record-edit with body {original_text, edited_text, text_type}:
\* assistant.record_user_edit(request.original_text, request.edited_text,
\* request.text_type), the third argument being user_id.
PostRecordEdit ==
    \E original \in Texts, edited \in Texts,
       textType \in PrefTypes \cup {NoTextType}, ctorOk \in CtorOutcomes :
        \E llmOut \in ChainOutcomes(original, edited) :
           \E ok \in SaveOutcomes(llmOut) :
              RecordUserEdit([endpoint |-> "/record-edit",
                              requested |-> textType],
                             original, edited, textType, ctorOk, llmOut,
                             ok[1], ok[2])

----------------------------------------------------------------------------
(* The relevance filter of the two retrieve_docs *)

\* The threshold 0.7, in hundredths.
Threshold == 70

Contents == {"d1", "d2"}
\* Scores in hundredths: below, at and above the threshold.
Scores == {-10, 0, 69, 70, 71, 100}

\* A result of search_similar_documents: a dict with content and score; a
\* dict without the "score" key is one retrieve_docs also accepts.
ScoredDocs == [content : Contents, score : Scores]
UnscoredDocs == [content : Contents]

\* The (page_content, score) pairs of similarity_search_with_score.
ScoredPairs == Contents \X Scores

SeqsUpTo(S, n) == UNION {[1..k -> S] : k \in 0..n}

\* doc.get("score", 0)
GetScore(doc) == IF "score" \in DOMAIN doc THEN doc.score ELSE 0

\* The filter with >= for >.
RelevantInclusive(score) == score >= Threshold

\* score > 0.7
Relevant(score) == score > Threshold

\* generate_text.retrieve_docs: [doc for doc in docs if doc.get("score", 0) > 0.7]
KbFilter(docs) == SelectSeq(docs, LAMBDA d : Relevant(GetScore(d)))

\* generate_text_with_temp_context.retrieve_docs:
\* [{"content": doc[0].page_content, "score": doc[1]} for doc in docs if doc[1] > 0.7]
TempFilter(pairs) ==
    LET kept == SelectSeq(pairs, LAMBDA p : Relevant(p[2]))
    IN [i \in 1..Len(kept) |-> [content |-> kept[i][1], score |-> kept[i][2]]]

InitFilter ==
    /\ retrieved = <<>>
    /\ passedOn = <<>>
    /\ filteredBy = "none"

\* retrieve_docs runs once in a request, on what the request retrieved.
FilterKb ==
    /\ filteredBy = "none"
    /\ \E docs \in SeqsUpTo(ScoredDocs \cup UnscoredDocs, MaxDocs) :
        /\ retrieved' = docs
        /\ passedOn' = KbFilter(docs)
        /\ filteredBy' = "kb"

FilterTemp ==
    /\ filteredBy = "none"
    /\ \E pairs \in SeqsUpTo(ScoredPairs, MaxDocs) :
        /\ retrieved' = [i \in 1..Len(pairs) |->
                           [content |-> pairs[i][1], score |-> pairs[i][2]]]
        /\ passedOn' = TempFilter(pairs)
        /\ filteredBy' = "temp"

\* The request that filtered is over; the next one retrieves anew.
FilterReturn ==
    /\ filteredBy # "none"
    /\ retrieved' = <<>>
    /\ passedOn' = <<>>
    /\ filteredBy' = "none"

----------------------------------------------------------------------------
(* The vector stores (vector_manager.py) *)

\* The VectorStoreManager instances of one process: assistant.vector_manager
\* and assistant.db_manager.vector_manager (ai_editor.py 36, 38).
Instances == {"vm", "db"}

\* The text types that come to have a store: one of the four knowledge-base
\* domains and one label outside them. vector_stores and the directory
\* vector_stores/ have no entry for any other type.
StoreTypes == {Creative, General}

\* The text types the store is asked about.
SearchTypes == StoreTypes \cup {Business}

\* The texts of the documents a build is given; build b is given its own
\* documents DocsOf(b), so that a result shows the build it comes from.
DocPool == {"d1", "d2"}

DocsOf(b) == {[src |-> b, text |-> d] : d \in DocPool}

\* The values of k.
Ks == {1, 2}

Queries == {<<>>, <<"q">>}

SearchScores == {50, 90}

BuildIds == 1..MaxBuilds

\* A FAISS store, by the build its vectors (index.faiss) and the build its
\* docstore (index.pkl) come from; 0 in both: no store.
NoIndex == [faiss |-> 0, pkl |-> 0]

IndexOf(b) == [faiss |-> b, pkl |-> b]

NoBuild == [pc |-> "idle"]

NoCall == [op |-> "none"]

\* The domains that can have corpus files under knowledge_bases/ when the
\* process starts.
Corpora == {{}, {Creative}}

\* Nothing has been loaded from disk: the constructors only build.
NoLoads == [i \in Instances |-> [c \in StoreTypes |-> 0]]

\* The state after the constructors of the instances have run
\* _load_knowledge_bases: a domain with corpus files has been built and
\* saved by each instance (build 1, the start-up load), a domain without
\* is untouched.
InitStore ==
    \E corpus \in Corpora :
        /\ LET kb == [c \in StoreTypes |->
                        IF c \in corpus THEN IndexOf(1) ELSE NoIndex]
           IN /\ disk = kb
              /\ cache = [i \in Instances |-> kb]
              /\ completed = [c \in StoreTypes |->
                                IF kb[c] # NoIndex THEN <<1>> ELSE <<>>]
        /\ loads = NoLoads
        /\ nextBuild = IF corpus # {} THEN 2 ELSE 1
        /\ build = NoBuild
        /\ lastCall = NoCall

\* save_vector_store returning False from its except branch.
BuildFails ==
    /\ lastCall' = [op |-> "build", inst |-> build.inst, cat |-> build.cat,
                    id |-> build.id, returned |-> "False",
                    storesBefore |-> build.storesBefore,
                    diskBefore |-> build.diskBefore, cacheWas |-> cache]
    /\ build' = NoBuild

\* save_vector_store(text_type, documents) up to the first file save_local
\* writes, index.faiss. FAISS.from_documents raises on an empty document
\* list or when the embedding call fails, and the write can fail: the call
\* then returns False with nothing changed. The store is held by the call
\* alone until it is written, so building and writing are one step.
StartBuild(inst, c, nonEmpty, embedOk, writeOk) ==
    /\ build.pc = "idle"
    /\ nextBuild <= MaxBuilds
    /\ IF nonEmpty /\ embedOk /\ writeOk
       THEN /\ nextBuild' = nextBuild + 1
            /\ disk' = [disk EXCEPT ![c].faiss = nextBuild]
            /\ build' = [pc |-> "faiss_written", inst |-> inst, cat |-> c,
                         id |-> nextBuild, storesBefore |-> cache[inst],
                         diskBefore |-> disk[c]]
            /\ lastCall' = [op |-> "build", inst |-> inst, cat |-> c,
                            id |-> nextBuild, returned |-> "not yet"]
       ELSE /\ lastCall' = [op |-> "build", inst |-> inst, cat |-> c,
                            id |-> 0, returned |-> "False",
                            storesBefore |-> cache[inst],
                            diskBefore |-> disk[c], cacheWas |-> cache]
            /\ UNCHANGED <<nextBuild, disk, build>>
    /\ UNCHANGED <<cache, loads, completed>>

\* vector_store.save_local, second file: index.pkl.
WritePkl(writeOk) ==
    /\ build.pc = "faiss_written"
    /\ IF writeOk
       THEN /\ disk' = [disk EXCEPT ![build.cat].pkl = build.id]
            /\ build' = [build EXCEPT !.pc = "saved"]
            /\ lastCall' = [op |-> "build", inst |-> build.inst,
                            cat |-> build.cat, id |-> build.id,
                            returned |-> "not yet"]
       ELSE BuildFails /\ UNCHANGED disk
    /\ UNCHANGED <<cache, loads, nextBuild, completed>>

\* self.vector_stores[text_type] = vector_store; return True
UpdateCache ==
    /\ build.pc = "saved"
    /\ cache' = [cache EXCEPT ![build.inst][build.cat] = IndexOf(build.id)]
    /\ completed' = [completed EXCEPT ![build.cat] = Append(@, build.id)]
    /\ lastCall' = [op |-> "build", inst |-> build.inst, cat |-> build.cat,
                    id |-> build.id, returned |-> "True"]
    /\ build' = NoBuild
    /\ UNCHANGED <<disk, loads, nextBuild>>

\* The files of vector_stores/<text_type>, none when there is no directory.
Files(d, c) == IF c \in DOMAIN d THEN d[c] ELSE NoIndex

\* os.path.exists(load_path): save_local has created the directory.
DiskExists(d, c) == Files(d, c).faiss # 0 \/ Files(d, c).pkl # 0

\* FAISS.load_local: reads index.faiss and index.pkl as they are on disk;
\* raises when one is missing or cannot be read.
LoadLocal(d, c, loadOk) ==
    IF loadOk /\ Files(d, c).faiss # 0 /\ Files(d, c).pkl # 0
    THEN [faiss |-> Files(d, c).faiss, pkl |-> Files(d, c).pkl]
    ELSE NoIndex

\* load_vector_store looking the store up under another key than text_type.
CachedAny(mine, c) ==
    IF \E x \in DOMAIN mine : mine[x] # NoIndex
    THEN mine[CHOOSE x \in DOMAIN mine : mine[x] # NoIndex]
    ELSE NoIndex

\* self.vector_stores[text_type], NoIndex when the key is absent.
Cached(mine, c) == IF c \in DOMAIN mine THEN mine[c] ELSE NoIndex

\* load_vector_store without the look-up in self.vector_stores: every call
\* goes to the disk.
LoadVectorStoreAlways(mine, d, c, loadOk) ==
    IF DiskExists(d, c) /\ LoadLocal(d, c, loadOk) # NoIndex
    THEN [store |-> LoadLocal(d, c, loadOk),
          stores |-> [mine EXCEPT ![c] = LoadLocal(d, c, loadOk)],
          loaded |-> TRUE]
    ELSE [store |-> NoIndex, stores |-> mine, loaded |-> FALSE]

\* load_vector_store(text_type) on an instance whose vector_stores is `mine`:
\* the store returned (NoIndex for None), vector_stores afterwards, and
\* whether FAISS.load_local was called and returned a store.
LoadVectorStore(mine, d, c, loadOk) ==
    IF Cached(mine, c) # NoIndex
    THEN [store |-> Cached(mine, c), stores |-> mine, loaded |-> FALSE]
    ELSE IF DiskExists(d, c) /\ LoadLocal(d, c, loadOk) # NoIndex
         THEN [store |-> LoadLocal(d, c, loadOk),
               stores |-> [mine EXCEPT ![c] = LoadLocal(d, c, loadOk)],
               loaded |-> TRUE]
         ELSE [store |-> NoIndex, stores |-> mine, loaded |-> FALSE]

Min(a, b) == IF a <= b THEN a ELSE b

\* What similarity_search_with_score(query, k) can return on a store: the
\* nearest vectors of index.faiss, each resolved in the docstore of
\* index.pkl, with its score.
SearchResults(store, k) ==
    LET pool == DocsOf(store.pkl)
        n == Min(k, Cardinality(pool))
    IN {r \in [1..n -> [content : pool, score : SearchScores]] :
          \A i, j \in 1..n : i # j => r[i].content # r[j].content}

\* search_similar_documents(text_type, query, k) on an instance whose
\* vector_stores is `mine`: what it can return, with the store it used,
\* vector_stores afterwards, and whether an exception was caught on the way
\* (in load_vector_store or in the search).
\*   loadOk  : FAISS.load_local does not raise for another reason
\*   queryOk : similarity_search_with_score does not raise
SearchOutcomes(mine, d, c, query, k, loadOk, queryOk) ==
    LET loaded == LoadVectorStore(mine, d, c, loadOk)
    IN IF query = <<>>
       THEN {[stores |-> mine, store |-> NoIndex, result |-> <<>>,
              caught |-> FALSE, loaded |-> FALSE]}
       ELSE IF loaded.store = NoIndex
            THEN {[stores |-> loaded.stores, store |-> loaded.store,
                   result |-> <<>>, caught |-> DiskExists(d, c),
                   loaded |-> FALSE]}
            ELSE IF ~queryOk
                 THEN {[stores |-> loaded.stores, store |-> loaded.store,
                        result |-> <<>>, caught |-> TRUE,
                        loaded |-> loaded.loaded]}
                 ELSE {[stores |-> loaded.stores, store |-> loaded.store,
                        result |-> r, caught |-> FALSE,
                        loaded |-> loaded.loaded] :
                          r \in SearchResults(loaded.store, k)}

\* The loads so far, one more for instance inst and text type c if this
\* call has loaded the store from disk.
Counted(done, inst, c, loaded) ==
    IF loaded THEN [done EXCEPT ![inst][c] = @ + 1] ELSE done

\* A call of search_similar_documents on instance inst.
Search(inst, c, query, k, loadOk, queryOk) ==
    LET call == [op |-> "search", inst |-> inst, cat |-> c, query |-> query,
                 k |-> k, storesBefore |-> cache[inst],
                 diskBefore |-> Files(disk, c),
                 completedBefore |-> IF c \in DOMAIN completed
                                     THEN completed[c] ELSE <<>>,
                 buildPc |-> build.pc, after |-> lastCall]
    IN \E o \in SearchOutcomes(cache[inst], disk, c, query, k, loadOk, queryOk) :
          /\ cache' = [cache EXCEPT ![inst] = o.stores]
          /\ loads' = Counted(loads, inst, c, o.loaded)
          /\ lastCall' = call @@ [store |-> o.store, result |-> o.result,
                                  loaded |-> o.loaded]

\* The ways a search can go: which of its two library calls raises, if any.
SearchFaults == {<<TRUE, TRUE>>, <<FALSE, TRUE>>, <<TRUE, FALSE>>}

SearchSimilarDocuments ==
    \E inst \in Instances, c \in SearchTypes, query \in Queries, k \in Ks,
       f \in SearchFaults :
        /\ Search(inst, c, query, k, f[1], f[2])
        /\ UNCHANGED <<disk, nextBuild, build, completed>>

\* The caller takes the result of the search that has just returned; the
\* store is as the search left it. Until then no other call is looked at:
\* lastCall describes one search at a time.
TakeResult ==
    /\ lastCall.op = "search"
    /\ lastCall' = NoCall
    /\ UNCHANGED <<disk, cache, loads, nextBuild, build, completed>>

Taken == lastCall.op # "search"

\* DatabaseManager.save_knowledge on "db", or save_vector_store on "vm".
SaveVectorStore ==
    \E inst \in Instances, c \in StoreTypes, nonEmpty \in BOOLEAN,
       embedOk \in BOOLEAN, writeOk \in BOOLEAN :
        StartBuild(inst, c, nonEmpty, embedOk, writeOk)

SaveLocal == \E writeOk \in BOOLEAN : WritePkl(writeOk)

----------------------------------------------------------------------------
(* The generation pipelines (ai_editor.py) and the streaming endpoint that
   wraps one of them (app.py) *)

\* user_text = None, as the form of /generate-with-context leaves it.
NoneText == <<"<None>">>

UserTexts == {<<>>, NoneText, <<"u">>}

Prompts == {<<>>, <<"p">>}

\* bool(text)
Truthy(text) == text # <<>> /\ text # NoneText

\* user_text + '\n\n' + prompt if user_text else prompt
CombinedQuery(userText, prompt) ==
    IF Truthy(userText) THEN userText \o <<"\n", "\n">> \o prompt ELSE prompt

\* top_k of generate_text; with_temp_context asks for 6.
TopK == 3
TopKTemp == 6

\* The chunks of text an ephemeral store holds.
EphemeralChunks == {"e1", "e2"}

\* What temp_vectorstore.similarity_search_with_score(query, k) can return
\* on a store of the given texts.
TempResults(k, texts) ==
    LET n == Min(k, Cardinality(texts))
    IN {r \in [1..n -> texts \X SearchScores] :
          \A i, j \in 1..n : i # j => r[i][1] # r[j][1]}

\* The text a chunk of the backend carries.
Payloads == {<<>>, <<" ">>, <<"h", "i">>}

\* A chunk of the backend: an object with a content attribute, with a text
\* attribute, or with neither (repr is then its str()).
Chunks == [content : Payloads] \cup [text : Payloads] \cup [repr : Payloads]

\* The text of a chunk, whatever its shape.
TextOf(chunk) ==
    IF "content" \in DOMAIN chunk THEN chunk.content
    ELSE IF "text" \in DOMAIN chunk THEN chunk.text
    ELSE chunk.repr

RECURSIVE Concat(_)
\* ''.join(texts)
Concat(texts) ==
    IF texts = <<>> THEN <<>> ELSE Head(texts) \o Concat(Tail(texts))

\* What chain.ainvoke returns from a backend whose stream would be
\* `chunks`: the whole answer in one message.
Batch(chunks) == Concat([i \in 1..Len(chunks) |-> TextOf(chunks[i])])

\* The else branch of `if stream`: result.content, result.text or
\* str(result), yielded as it is.
YieldWhole(chunks) == <<Batch(chunks)>>

\* The loop body yielding only chunks that have a content attribute.
EmitContentOnly(chunk) ==
    IF "content" \in DOMAIN chunk THEN <<chunk.content>> ELSE <<>>

\* The body of `async for chunk in chain.astream(...)`: what is yielded
\* for one chunk.
Emit(chunk) ==
    IF "content" \in DOMAIN chunk THEN <<chunk.content>>
    ELSE IF "text" \in DOMAIN chunk THEN <<chunk.text>>
    ELSE IF Strip(chunk.repr) # <<>> THEN <<chunk.repr>>
    ELSE <<>>

\* The text_type enhance_context asks preferences for:
\* self.preference_manager.get_preferences() takes the default, "general".
PreferenceType(category) == General

\* "相关文档 {i+1}: {doc['content']}" for each document, joined by newlines.
ContextOf(docs) ==
    [i \in 1..Len(docs) |-> [ordinal |-> i, content |-> docs[i].content]]

Idle == [pc |-> "idle"]

NoFailure == [at |-> "none"]

InitGen == gen = Idle

\* A call of generate_text (pipe "kb") or generate_text_with_temp_context
\* (pipe "temp") whose generator is being iterated; wrapped: by
\* generate_stream of /generate-with-context, which calls with stream=True.
\* index: the texts of temp_vectorstore, {} for None.
NewRequest(pipe, userText, prompt, stream, wrapped, index) ==
    [pc |-> IF pipe = "kb" THEN "classify" ELSE "search",
     pipe |-> pipe, stream |-> stream, wrapped |-> wrapped,
     index |-> index, user_text |-> userText,
     prompt |-> prompt, query |-> CombinedQuery(userText, prompt),
     yielded |-> <<>>, events |-> <<>>, swallowed |-> {},
     failure |-> NoFailure,
     calls |-> [classify |-> 0, search |-> 0, preferences |-> 0,
                backend |-> 0]]

\* A step that calls twice: once more after the first call.
CalledTwice(g, step) == [g EXCEPT !.calls[step] = @ + 2]

\* The request g makes the call of one of its steps: classify (the
\* classifier's chain), search (the store's search), preferences
\* (preference_manager.get_preferences) or backend (the chain's model).
Called(g, step) == [g EXCEPT !.calls[step] = @ + 1]

\* A direct call, its generator iterated by the caller.
StartRequest(pipe, userText, prompt, stream, hasTemp) ==
    /\ gen.pc = "idle"
    /\ hasTemp => pipe = "temp"
    /\ gen' = NewRequest(pipe, userText, prompt, stream, FALSE,
                         IF hasTemp THEN EphemeralChunks ELSE {})

\* What the framework can make of an async generator returned under
\* response_model=str: a validation error answered with status 500, or the
\* object rendered as a string.
GeneratorResponses ==
    {[status |-> 500], [status |-> 200, body |-> "<async_generator object>"]}

\* POST /generate: `return assistant.generate_text(request.user_text or "",
\* request.prompt)`. generate_text is an async generator function, so the
\* call makes the generator and runs none of its body; the handler neither
\* awaits nor iterates it, and its except branch sees no exception. The
\* answer is what the framework makes of the generator object.
PostGenerate(userText, prompt, response) ==
    /\ gen.pc = "idle"
    /\ LET text == IF Truthy(userText) THEN userText ELSE <<>>
           generator == NewRequest("kb", text, prompt, FALSE, FALSE, {})
       IN gen' = [pc |-> "answered", endpoint |-> "/generate",
                  response |-> response, calls |-> generator.calls,
                  yielded |-> generator.yielded]

\* The uploads /generate-with-context is given: by file extension, one it
\* reads as text and one it skips.
FilePool == {"txt", "bin"}

UrlPool == {"a", "b"}

\* A fetch: status 200, another status, or an exception inside the try.
FetchOutcomes == {"ok", "status", "raised"}

\* context += f"\n=== 文件：{file.filename} ===\n{file_context}\n", or
\* `continue` for an extension that is not supported. A context is the
\* sequence of its sections, "" the empty sequence.
FileContext(file) == IF file = "txt" THEN <<<<"file", file>>>> ELSE <<>>

\* fetch_url returning the page whatever the status.
FetchUrlAnyStatus(url, outcome) ==
    IF outcome # "raised" THEN <<<<"url", url>>>> ELSE <<>>

\* fetch_url(url): f"\n=== URL：{url} ===\n{soup.get_text()}\n" for status
\* 200, "" from the except branch and "" for any other status.
FetchUrl(url, outcome) ==
    IF outcome = "ok" THEN <<<<"url", url>>>> ELSE <<>>

\* asyncio.gather: one slot per awaitable, in the order of the arguments;
\* the fetch that completes done+1-th, order[done + 1], fills its own slot.
RECURSIVE GatherFrom(_, _, _, _)
GatherFrom(results, done, pages, order) ==
    IF done = Len(order) THEN results
    ELSE GatherFrom([results EXCEPT ![order[done + 1]] = pages[order[done + 1]]],
                    done + 1, pages, order)

\* The results in the order the fetches complete, as
\* asyncio.as_completed would hand them over.
GatherAsCompleted(pages, order) == [k \in 1..Len(order) |-> pages[order[k]]]

\* await asyncio.gather(*[fetch_url(url) for url in urls]), the fetches
\* completing in the order `order`.
Gather(pages, order) ==
    GatherFrom([i \in 1..Len(pages) |-> <<>>], 0, pages, order)

\* The context of the handler: the files in order, then
\* ''.join(await asyncio.gather(*[fetch_url(url) for url in urls])).
BuildContext(files, urls, outcomes, order) ==
    Concat([i \in 1..Len(files) |-> FileContext(files[i])])
    \o Concat(Gather([i \in 1..Len(urls) |-> FetchUrl(urls[i], outcomes[i])],
                     order))

\* text_splitter.split_text(context) and FAISS.from_texts: the texts of
\* the store, one per section.
SplitText(context) == {context[i] : i \in 1..Len(context)}

\* POST /generate-with-context up to its return of the StreamingResponse:
\* the context is read and fetched, the ephemeral store is built when the
\* context is not empty, and generate_stream starts. An exception on the
\* way, such as FAISS.from_texts raising (embedOk false), is answered with
\* status 500.
GenerateWithContext(prompt, userText, files, urls, outcomes, order, embedOk) ==
    /\ gen.pc = "idle"
    /\ LET context == BuildContext(files, urls, outcomes, order)
           call == [files |-> files, urls |-> urls, outcomes |-> outcomes,
                    order |-> order, context |-> context,
                    embedOk |-> embedOk]
       IN IF context # <<>> /\ ~embedOk
          THEN gen' = [pc |-> "rejected", status |-> 500, call |-> call]
          ELSE gen' = NewRequest("temp", userText, prompt, TRUE, TRUE,
                                 SplitText(context))
                      @@ [call |-> call]

\* The fields a request keeps to its end.
Base(g) ==
    [pipe |-> g.pipe, stream |-> g.stream, wrapped |-> g.wrapped,
     yielded |-> g.yielded, events |-> g.events, swallowed |-> g.swallowed,
     calls |-> g.calls]

\* generate_stream without its except branch.
RaisedUnwrapped(g, at) ==
    Base(g) @@ [pc |-> "failed", failure |-> [at |-> at]]

\* An exception leaves the pipeline at step `at`: generate_stream turns it
\* into one more event, f"data: {str(e)}", and ends; any other caller gets
\* the exception.
Raised(g, at) ==
    IF g.wrapped
    THEN [Base(g) EXCEPT !.events = Append(@, [kind |-> "error", data |-> at])]
         @@ [pc |-> "done", failure |-> [at |-> at]]
    ELSE Base(g) @@ [pc |-> "failed", failure |-> [at |-> at]]

\* retrieve_docs of generate_text, first half: text_classifier.classify(query).
ClassifyQuery(out) ==
    /\ gen.pc = "classify"
    /\ IF out = LlmRaises
       THEN gen' = Raised(Called(gen, "classify"), "classifier")
       ELSE gen' = [Called(gen, "classify") EXCEPT !.pc = "search"]
                   @@ [raw |-> out, category |-> Classify(out)]

\* retrieve_docs of generate_text, second half: the search on
\* self.vector_manager and the relevance filter.
RetrieveKb(loadOk, queryOk) ==
    /\ gen.pc = "search"
    /\ gen.pipe = "kb"
    /\ \E o \in SearchOutcomes(cache["vm"], disk, gen.category, gen.query,
                                TopK, loadOk, queryOk) :
          /\ cache' = [cache EXCEPT !["vm"] = o.stores]
          /\ loads' = Counted(loads, "vm", gen.category, o.loaded)
          /\ gen' = [pc |-> "enhance", docs |-> KbFilter(o.result),
                     enhanced |-> {},
                     swallowed |-> IF o.caught THEN {"retrieval"} ELSE {},
                     calls |-> Called(gen, "search").calls]
                     @@ [x \in DOMAIN gen \ {"raw"} |-> gen[x]]

\* retrieve_docs of generate_text_with_temp_context.
RetrieveTemp(queryOk) ==
    /\ gen.pc = "search"
    /\ gen.pipe = "temp"
    /\ LET rest == [x \in DOMAIN gen \ {"call"} |-> gen[x]]
       IN IF gen.index = {}
          THEN gen' = [pc |-> "enhance", docs |-> <<>>, enhanced |-> {}]
                      @@ rest
          ELSE IF ~queryOk
               THEN gen' = Raised(Called(gen, "search"), "retrieval")
               ELSE \E r \in TempResults(TopKTemp, gen.index) :
                       gen' = [pc |-> "enhance", docs |-> TempFilter(r),
                               enhanced |-> {},
                               calls |-> Called(gen, "search").calls]
                              @@ rest

\* One of the two calls of enhance_context the context chain makes, the one
\* for its "context" key or the one for its "preferences" key; each calls
\* preference_manager.get_preferences().
\*   ctorOk  : get_mysql_preference_manager() returns (read when db_manager
\*             is None); otherwise it raises out of the pipeline
\*   queryOk : the query of DatabaseManager.get_preferences does not raise;
\*             otherwise get_preferences returns [] from its except branch
\*   kbOk    : the searches of kb_manager.get_relevant_context, which only
\*             generate_text_with_temp_context makes and only for a user_text
\*             that is a non-empty string, do not raise; otherwise it skips
\*             them in its except branch. Its value goes into no prompt.
EnhanceContext(key, ctorOk, queryOk, kbOk) ==
    /\ gen.pc = "enhance"
    /\ key \notin gen.enhanced
    /\ IF ~dbManagerReady /\ ~ctorOk
       THEN /\ gen' = Raised(Called(gen, "preferences"), "preferences")
            /\ UNCHANGED dbManagerReady
       ELSE /\ dbManagerReady' = TRUE
            /\ \E preferences \in
                      DbGetPreferences(prefTable, queryOk, DefaultUser,
                                       PreferenceType(IF gen.pipe = "kb"
                                                      THEN gen.category
                                                      ELSE General)) :
               LET value == IF key = "context" THEN ContextOf(gen.docs)
                            ELSE preferences
                   kbFailed == /\ gen.pipe = "temp"
                               /\ Truthy(gen.user_text)
                               /\ ~kbOk
               IN gen' = [Called(gen, "preferences") EXCEPT
                            !.enhanced = @ \cup {key},
                            !.swallowed =
                                @ \cup (IF queryOk THEN {}
                                        ELSE {"preferences"})
                                  \cup (IF kbFailed THEN {"kb_context"}
                                        ELSE {})]
                         @@ (key :> value)

\* prompt_template: the four values of the context chain in one prompt.
AssemblePrompt ==
    /\ gen.pc = "enhance"
    /\ gen.enhanced = {"context", "preferences"}
    /\ gen' = Base(gen)
               @@ [pc |-> "prompted", failure |-> NoFailure,
                   category |-> IF gen.pipe = "kb" THEN gen.category
                                ELSE <<>>,
                   assembled |-> [prompt |-> gen.prompt,
                                  user_text |-> gen.user_text,
                                  context |-> gen.context,
                                  preferences |-> gen.preferences]]

\* The prompt goes to the backend: chain.astream starts the stream, or
\* chain.ainvoke returns the whole answer, which is yielded as it is, or
\* raises.
Dispatch(backendOk, answer) ==
    /\ gen.pc = "prompted"
    /\ LET g == Called(gen, "backend")
       IN IF gen.stream
          THEN gen' = Base(g) @@ [pc |-> "streaming", failure |-> NoFailure,
                                  sent |-> <<>>]
          ELSE IF backendOk
               THEN gen' = [Base(g) EXCEPT !.yielded = YieldWhole(answer)]
                           @@ [pc |-> "done", failure |-> NoFailure]
               ELSE gen' = Raised(g, "backend")

\* The backend sends one more chunk; sent are the chunks it has sent.
StreamChunk(chunk) ==
    /\ gen.pc = "streaming"
    /\ Len(gen.sent) < MaxChunks
    /\ LET out == Emit(chunk)
           sse == [i \in 1..Len(out) |-> [kind |-> "data", data |-> out[i]]]
       IN gen' = [gen EXCEPT !.sent = Append(@, chunk),
                             !.yielded = @ \o out,
                             !.events = IF gen.wrapped THEN @ \o sse ELSE @]

\* The backend ends the stream.
StreamEnd ==
    /\ gen.pc = "streaming"
    /\ gen' = Base(gen) @@ [pc |-> "done", failure |-> NoFailure,
                            sent |-> gen.sent]

\* The backend raises in the middle of the stream.
StreamFail ==
    /\ gen.pc = "streaming"
    /\ gen' = Raised(gen, "backend")

\* The caller is done with the request.
Finish ==
    /\ gen.pc \in {"done", "failed", "rejected", "answered"}
    /\ gen' = Idle

----------------------------------------------------------------------------
(* The specifications *)

Init == InitPrefs /\ InitFilter /\ InitStore /\ InitGen

\* The preference manager alone.
PrefsRecordEdit ==
    /\ Len(prefTable) + 2 <= MaxRecords
    /\ llmCalls < MaxLlmCalls
    /\ RecordEdit
    /\ UNCHANGED <<filterVars, storeVars, gen>>

PrefsPostRecordEdit ==
    /\ Len(prefTable) + 2 <= MaxRecords
    /\ llmCalls < MaxLlmCalls
    /\ PostRecordEdit
    /\ UNCHANGED <<filterVars, storeVars, gen>>

PrefsGetPreferences ==
    ReadPreferences /\ UNCHANGED <<filterVars, storeVars, gen>>

NextPrefs == PrefsRecordEdit \/ PrefsPostRecordEdit \/ PrefsGetPreferences

SpecPrefs == Init /\ [][NextPrefs]_vars

\* The relevance filters applied to any retrieval result.
ApplyFilterKb == FilterKb /\ UNCHANGED <<prefVars, storeVars, gen>>

ApplyFilterTemp == FilterTemp /\ UNCHANGED <<prefVars, storeVars, gen>>

ApplyFilterReturn == FilterReturn /\ UNCHANGED <<prefVars, storeVars, gen>>

NextFilter == ApplyFilterKb \/ ApplyFilterTemp \/ ApplyFilterReturn

SpecFilter == Init /\ [][NextFilter]_vars

\* The vector stores: builds, step by step, and searches between the steps.
StoreBuildStart == Taken /\ SaveVectorStore /\ UNCHANGED <<prefVars, filterVars, gen>>

StoreBuildSave == Taken /\ SaveLocal /\ UNCHANGED <<prefVars, filterVars, gen>>

StoreBuildDone == Taken /\ UpdateCache /\ UNCHANGED <<prefVars, filterVars, gen>>

StoreSearch ==
    Taken /\ SearchSimilarDocuments /\ UNCHANGED <<prefVars, filterVars, gen>>

StoreTakeResult == TakeResult /\ UNCHANGED <<prefVars, filterVars, gen>>

NextStore ==
    \/ StoreBuildStart
    \/ StoreBuildSave
    \/ StoreBuildDone
    \/ StoreSearch
    \/ StoreTakeResult

SpecStore == Init /\ [][NextStore]_vars

\* The generation pipelines, one request at a time, on the preference table
\* earlier edits have left.
SampleTables ==
    {<<>>}
    \cup {AfterSaves(<<>>, t, "s1", TRUE, TRUE) : t \in PrefTypes}
    \cup {AfterSaves(AfterSaves(<<>>, General, "s1", TRUE, TRUE),
                     Business, "s2", TRUE, TRUE)}

InitGenPrefs ==
    /\ prefTable \in SampleTables
    /\ dbManagerReady \in BOOLEAN
    /\ llmCalls = 0
    /\ lastOp = NoOp

\* The stores as start-up leaves them, or with one category more that
\* DatabaseManager.save_knowledge has built since on its own instance.
InitGenStore ==
    \E corpus \in Corpora, saved \in BOOLEAN :
        LET kb == [c \in StoreTypes |->
                     IF c \in corpus THEN IndexOf(1) ELSE NoIndex]
            first == IF corpus # {} THEN 2 ELSE 1
            now == IF saved THEN [kb EXCEPT ![General] = IndexOf(first)]
                   ELSE kb
        IN /\ disk = now
           /\ cache = [i \in Instances |-> IF i = "db" THEN now ELSE kb]
           /\ completed = [c \in StoreTypes |->
                             IF now[c] # NoIndex THEN <<now[c].pkl>> ELSE <<>>]
           /\ loads = NoLoads
           /\ nextBuild = IF saved THEN first + 1 ELSE first
           /\ build = NoBuild
           /\ lastCall = NoCall

InitPipelines == InitGenPrefs /\ InitFilter /\ InitGenStore /\ InitGen

genFrame == <<prefTable, llmCalls, lastOp, filterVars, disk, nextBuild, build,
              completed, lastCall>>

GenStart ==
    /\ gen.pc = "idle"
    /\ \E pipe \in {"kb", "temp"}, userText \in UserTexts, prompt \in Prompts,
          stream \in BOOLEAN, hasTemp \in BOOLEAN :
            StartRequest(pipe, userText, prompt, stream, hasTemp)
    /\ UNCHANGED <<genFrame, cache, loads, dbManagerReady>>

GenPostGenerate ==
    /\ gen.pc = "idle"
    /\ \E userText \in UserTexts, prompt \in Prompts,
          response \in GeneratorResponses :
            PostGenerate(userText, prompt, response)
    /\ UNCHANGED <<genFrame, cache, loads, dbManagerReady>>

\* The URL lists of a request: no URL twice.
UrlLists ==
    {u \in SeqsUpTo(UrlPool, MaxUrls) :
        \A i, j \in 1..Len(u) : i # j => u[i] # u[j]}

\* The orders in which n concurrent fetches can complete.
CompletionOrders(n) == Orders([i \in 1..n |-> i])

GenWithContext ==
    /\ gen.pc = "idle"
    /\ \E prompt \in Prompts, userText \in UserTexts,
          files \in SeqsUpTo(FilePool, 1), urls \in UrlLists,
          embedOk \in BOOLEAN :
            \E outcomes \in [1..Len(urls) -> FetchOutcomes],
               order \in CompletionOrders(Len(urls)) :
                GenerateWithContext(prompt, userText, files, urls, outcomes,
                                    order, embedOk)
    /\ UNCHANGED <<genFrame, cache, loads, dbManagerReady>>

GenClassify ==
    /\ gen.pc = "classify"
    /\ \E out \in RawOutputs \cup {LlmRaises} : ClassifyQuery(out)
    /\ UNCHANGED <<genFrame, cache, loads, dbManagerReady>>

GenRetrieveKb ==
    /\ gen.pc = "search"
    /\ \E f \in SearchFaults : RetrieveKb(f[1], f[2])
    /\ UNCHANGED <<genFrame, dbManagerReady>>

GenRetrieveTemp ==
    /\ gen.pc = "search"
    /\ \E queryOk \in BOOLEAN : RetrieveTemp(queryOk)
    /\ UNCHANGED <<genFrame, cache, loads, dbManagerReady>>

GenEnhance ==
    /\ gen.pc = "enhance"
    /\ \E key \in {"context", "preferences"}, ctorOk \in BOOLEAN,
          queryOk \in BOOLEAN, kbOk \in BOOLEAN :
            EnhanceContext(key, ctorOk, queryOk, kbOk)
    /\ UNCHANGED <<genFrame, cache, loads>>

GenAssemble == AssemblePrompt /\ UNCHANGED <<genFrame, cache, loads, dbManagerReady>>

\* The answers of the backend; only a chain.ainvoke that returns has one.
Answers(stream, backendOk) ==
    IF stream \/ ~backendOk THEN {<<>>} ELSE SeqsUpTo(Chunks, MaxChunks)

GenDispatch ==
    /\ gen.pc = "prompted"
    /\ \E backendOk \in BOOLEAN :
          \E answer \in Answers(gen.stream, backendOk) :
             Dispatch(backendOk, answer)
    /\ UNCHANGED <<genFrame, cache, loads, dbManagerReady>>

GenStreamChunk ==
    /\ gen.pc = "streaming"
    /\ \E chunk \in Chunks : StreamChunk(chunk)
    /\ UNCHANGED <<genFrame, cache, loads, dbManagerReady>>

GenStreamEnd == StreamEnd /\ UNCHANGED <<genFrame, cache, loads, dbManagerReady>>

GenStreamFail == StreamFail /\ UNCHANGED <<genFrame, cache, loads, dbManagerReady>>

GenFinish == Finish /\ UNCHANGED <<genFrame, cache, loads, dbManagerReady>>

NextPipelines ==
    \/ GenStart
    \/ GenPostGenerate
    \/ GenWithContext
    \/ GenClassify
    \/ GenRetrieveKb
    \/ GenRetrieveTemp
    \/ GenEnhance
    \/ GenAssemble
    \/ GenDispatch
    \/ GenStreamChunk
    \/ GenStreamEnd
    \/ GenStreamFail
    \/ GenFinish

SpecPipelines == InitPipelines /\ [][NextPipelines]_vars

----------------------------------------------------------------------------
(* Claims about the preference store *)

EditDone == lastOp.op = "analyze_edits"

\* C1: a call of analyze_edits with original_text = edited_text leaves the
\* preference table as it was before the call and makes no call to the
\* summarization LLM, whatever the category and the state it starts from.
C1_NoOpEdit ==
    (EditDone /\ lastOp.original = lastOp.edited) =>
        /\ prefTable = lastOp.before
        /\ llmCalls = lastOp.callsBefore

\* a no-op edit has returned, on a table that already holds records
C1_Witness ==
    /\ EditDone
    /\ lastOp.original = lastOp.edited
    /\ lastOp.outcome = "returned"
    /\ lastOp.text_type # General
    /\ lastOp.before # <<>>

\* The records analyze_edits is to append for a summary.
ExpectedRecords(textType, summary) ==
    <<PreferenceRecord(DefaultUser, textType, "llm_analysis", summary)>>
    \o (IF textType # General
        THEN <<PreferenceRecord(DefaultUser, General, "llm_analysis", summary)>>
        ELSE <<>>)

\* C2 as stated: every call with original_text # edited_text calls the
\* summarization LLM exactly once and appends the record under the category
\* and, for a category other than "general", its duplicate under "general".
C2_Original ==
    (EditDone /\ lastOp.original # lastOp.edited) =>
        /\ llmCalls = lastOp.callsBefore + 1
        /\ \E s \in Summaries :
              prefTable = lastOp.before \o ExpectedRecords(lastOp.text_type, s)

\* C2 amended: for original_text # edited_text, once the database manager
\* is available the summarization LLM is called exactly once; when the call
\* returns a summary, each save the database accepts appends its record
\* (first the category's, then the duplicate under "general" when the
\* category is not "general"), so with both saves accepted the new records
\* are exactly the claimed ones; a rejected save appends nothing, and a call
\* that raises (constructing the database manager, or in the LLM) appends
\* nothing.
C2_RecordEdit ==
    (EditDone /\ lastOp.original # lastOp.edited) =>
        /\ lastOp.outcome # "ctor_raised" =>
               llmCalls = lastOp.callsBefore + 1
        /\ lastOp.outcome = "ctor_raised" => llmCalls = lastOp.callsBefore
        /\ lastOp.outcome # "returned" => prefTable = lastOp.before
        /\ lastOp.outcome = "returned" =>
            LET want == ExpectedRecords(lastOp.text_type, lastOp.summary)
                kept == [i \in 1..Len(want) |->
                           IF i = 1 THEN lastOp.saved1 ELSE lastOp.saved2]
            IN /\ lastOp.summary \in Summaries
               /\ prefTable = lastOp.before
                     \o (IF kept[1] THEN <<want[1]>> ELSE <<>>)
                     \o (IF Len(want) = 2 /\ kept[2] THEN <<want[2]>> ELSE <<>>)

\* an edit under a category other than "general" has stored both records
C2_Witness ==
    /\ EditDone
    /\ lastOp.original # lastOp.edited
    /\ lastOp.outcome = "returned"
    /\ lastOp.text_type = Academic
    /\ lastOp.saved1 /\ lastOp.saved2
    /\ Len(prefTable) = Len(lastOp.before) + 2

----------------------------------------------------------------------------
(* Claims about the relevance filter *)

\* The positions of the retrieved documents that carry a score above 0.7.
Above == {i \in 1..Len(retrieved) :
            /\ "score" \in DOMAIN retrieved[i]
            /\ retrieved[i].score > 70}

\* The k-th position of Above, counting from 1.
NthAbove(k) == CHOOSE i \in Above : Cardinality({j \in Above : j < i}) = k - 1

\* C3: in both pipelines the documents passed on are exactly the retrieved
\* documents with a score strictly above 0.7, in retrieval order: a document
\* at or below 0.7, or without a score, is left out and every other is kept.
C3_RelevanceFilter ==
    /\ Len(passedOn) = Cardinality(Above)
    /\ \A k \in 1..Len(passedOn) : passedOn[k] = retrieved[NthAbove(k)]

\* a retrieval with a document exactly at 0.7, one above it and one without
\* a score has been filtered, and something was kept and something dropped
C3_Witness ==
    /\ filteredBy = "kb"
    /\ \E i \in 1..Len(retrieved) : "score" \notin DOMAIN retrieved[i]
    /\ \E i \in 1..Len(retrieved) :
          "score" \in DOMAIN retrieved[i] /\ retrieved[i].score = 70
    /\ Len(passedOn) = 1

----------------------------------------------------------------------------
(* Claims about the vector stores *)

SearchDone == lastCall.op = "search"

\* What a vector_stores dict holds under a text type, NoIndex for no entry.
Held(stores, c) == IF c \in DOMAIN stores THEN stores[c] ELSE NoIndex

\* C4: a search for a text type that has no store in the memory of the
\* instance asked and no file on disk returns the empty list, whatever the
\* query and whatever else the stores hold; every exception of the search
\* is caught inside search_similar_documents, so the call always returns.
C4_EmptySearch ==
    (/\ SearchDone
     /\ Held(lastCall.storesBefore, lastCall.cat) = NoIndex
     /\ lastCall.diskBefore = NoIndex) =>
        /\ lastCall.result = <<>>
        /\ lastCall.store = NoIndex
        /\ Held(cache[lastCall.inst], lastCall.cat) = NoIndex

\* a non-empty query for a type without any store has returned while the
\* instance asked holds the store of another type
C4_Witness ==
    /\ SearchDone
    /\ lastCall.query # <<>>
    /\ lastCall.cat \in {General, Business}
    /\ Held(lastCall.storesBefore, lastCall.cat) = NoIndex
    /\ lastCall.diskBefore = NoIndex
    /\ cache[lastCall.inst][Creative] # NoIndex

\* C5 as stated: once two builds of a text type have completed and no build
\* is running, a search of that type through either instance that returns
\* documents returns documents of the latest completed build only.
C5_LatestBuild ==
    (/\ SearchDone
     /\ Len(lastCall.completedBefore) >= 2
     /\ lastCall.buildPc = "idle"
     /\ lastCall.result # <<>>) =>
        LET latest == lastCall.completedBefore[Len(lastCall.completedBefore)]
        IN /\ lastCall.store = IndexOf(latest)
           /\ \A i \in 1..Len(lastCall.result) :
                 lastCall.result[i].content.src = latest

\* C6 as stated: a search of a text type made while a build of that type
\* is between its steps observes a whole store: none, the one from before
\* the build, or the new one, never vectors of one build with the docstore
\* of another.
C6_WholeIndex ==
    (/\ SearchDone
     /\ lastCall.buildPc # "idle"
     /\ build.pc # "idle"
     /\ build.cat = lastCall.cat) =>
        lastCall.store.faiss = lastCall.store.pkl

\* C19: within one instance the index of a text type is loaded from disk at
\* most once; a load that returns a store leaves it in vector_stores, and a
\* search made while vector_stores holds a store for its text type uses that
\* store and loads nothing, whatever the disk holds by then.
C19_LoadedOnce ==
    /\ \A i \in Instances, c \in StoreTypes : loads[i][c] <= 1
    /\ (SearchDone /\ lastCall.loaded) =>
          /\ Held(lastCall.storesBefore, lastCall.cat) = NoIndex
          /\ lastCall.store # NoIndex
          /\ Held(cache[lastCall.inst], lastCall.cat) = lastCall.store
    /\ (/\ SearchDone
        /\ lastCall.query # <<>>
        /\ Held(lastCall.storesBefore, lastCall.cat) # NoIndex) =>
          /\ ~lastCall.loaded
          /\ lastCall.store = Held(lastCall.storesBefore, lastCall.cat)
          /\ cache[lastCall.inst] = lastCall.storesBefore

\* an instance that has loaded a text type from disk once searches it
\* again after another build has rewritten the files, and uses the store it
\* holds
C19_Witness ==
    /\ SearchDone
    /\ lastCall.query # <<>>
    /\ lastCall.cat \in StoreTypes
    /\ loads[lastCall.inst][lastCall.cat] = 1
    /\ ~lastCall.loaded
    /\ lastCall.buildPc = "idle"
    /\ lastCall.diskBefore.faiss = lastCall.diskBefore.pkl
    /\ lastCall.diskBefore # Held(lastCall.storesBefore, lastCall.cat)
    /\ lastCall.store = Held(lastCall.storesBefore, lastCall.cat)
    /\ lastCall.result # <<>>

\* save_vector_store has just returned False.
SaveFailed(call) == call.op = "build" /\ call.returned = "False"

\* The store the instance answered from when the call began: the one it
\* held, or else the files on disk.
PreviousIndex(call) ==
    IF Held(call.storesBefore, call.cat) # NoIndex
    THEN Held(call.storesBefore, call.cat)
    ELSE call.diskBefore

\* A save_vector_store that returns False leaves every vector_stores entry
\* of every instance as it was when its except branch was entered.
FailedSaveKeepsCache == SaveFailed(lastCall) => cache = lastCall.cacheWas

\* The next search of the same instance and text type after a
\* save_vector_store that returned False.
SearchAfterFailedSave ==
    /\ SearchDone
    /\ lastCall.query # <<>>
    /\ SaveFailed(lastCall.after)
    /\ lastCall.after.inst = lastCall.inst
    /\ lastCall.after.cat = lastCall.cat

\* C21 as stated: a save_vector_store that fails returns False with the
\* stores held in memory unchanged, and the next search of that instance on
\* that text type, when it finds a store, is answered from the index the
\* instance answered from before the call.
C21_FailedSaveKeepsIndex ==
    /\ FailedSaveKeepsCache
    /\ (SearchAfterFailedSave /\ lastCall.store # NoIndex) =>
          /\ lastCall.store = PreviousIndex(lastCall.after)
          /\ \A i \in 1..Len(lastCall.result) :
                lastCall.result[i].content.src
                    = PreviousIndex(lastCall.after).pkl

----------------------------------------------------------------------------
(* Claims about the generation pipelines *)

\* raw is label with whitespace around it and its letters in any case.
Padded(raw, label) ==
    \E a \in 0..Len(raw) :
        /\ a + Len(label) <= Len(raw)
        /\ \A i \in 1..a : raw[i] \in Whitespace
        /\ \A i \in 1..Len(label) : LowerChar(raw[a + i]) = label[i]
        /\ \A i \in (a + Len(label) + 1)..Len(raw) : raw[i] \in Whitespace

\* generate_text has classified its query and goes on to search.
Classified == gen.pc = "search" /\ gen.pipe = "kb"

\* C7: whatever the classifier's LLM answers, classify returns one of the
\* four text types: the type the answer spells once trimmed and lower-cased,
\* and "creative" for every other answer; the pipeline goes on with it.
C7_ClassifyTotal ==
    Classified =>
        /\ gen.category \in TEXT_TYPES
        /\ \A t \in TEXT_TYPES : Padded(gen.raw, t) => gen.category = t
        /\ (\A t \in TEXT_TYPES : ~Padded(gen.raw, t)) => gen.category = Creative
        /\ gen.failure = NoFailure

\* C7 witness: the classifier's LLM answered a label outside the four types
\* and the pipeline goes on with "creative"
C7_Witness ==
    /\ Classified
    /\ gen.raw = <<"n", "o", "n", "s", "e", "n", "s", "e">>
    /\ gen.category = Creative

\* C8 as stated: the preferences in the prompt generate_text assembles are
\* the stored preferences of the default user for the text type the
\* classifier returned for the request.
C8_PreferencesOfCategory ==
    (gen.pc = "prompted" /\ gen.pipe = "kb" /\ gen.swallowed = {}) =>
        gen.assembled.preferences
            \in DbGetPreferences(prefTable, TRUE, DefaultUser, gen.category)

\* The /generate-with-context stream has ended.
StreamOver == gen.pc \in {"done", "failed"} /\ gen.wrapped

ErrorEvents(events) == {i \in 1..Len(events) : events[i].kind = "error"}

\* The events end with the one error event there is, carrying message msg.
EndsWithOneError(events, msg) ==
    /\ ErrorEvents(events) = {Len(events)}
    /\ events[Len(events)].data = msg

\* C9 as stated: a /generate-with-context stream during which anything
\* failed, the preference query and the knowledge-base lookup included,
\* ends with exactly one error event.
C9_Original ==
    (StreamOver /\ (gen.failure # NoFailure \/ gen.swallowed # {})) =>
        /\ gen.pc = "done"
        /\ ErrorEvents(gen.events) = {Len(gen.events)}

\* C9: a /generate-with-context stream out of whose pipeline an exception
\* came ends normally with exactly one error event, the last one, carrying
\* the exception's message; a stream whose pipeline raised nothing, whatever
\* it absorbed on the way, has no error event.
C9_ErrorFragment ==
    /\ StreamOver =>
          /\ gen.pc = "done"
          /\ gen.failure # NoFailure
                => EndsWithOneError(gen.events, gen.failure.at)
          /\ gen.failure = NoFailure => ErrorEvents(gen.events) = {}
    /\ (gen.pc \notin {"idle", "rejected", "answered", "done", "failed"}
          /\ gen.wrapped)
          => ErrorEvents(gen.events) = {}

\* C9 witness: the backend raised after a fragment had been sent, and the
\* stream ended with the error event
C9_Witness ==
    /\ StreamOver
    /\ gen.failure = [at |-> "backend"]
    /\ Len(gen.events) >= 2
    /\ gen.events[1].kind = "data"
    /\ gen.events[Len(gen.events)].kind = "error"

\* C10 as stated: every fragment a streaming request has yielded is
\* non-empty once its whitespace is trimmed.
C10_FragmentsNonEmpty ==
    (gen.pc \in {"streaming", "done", "failed"} /\ gen.stream) =>
        \A i \in 1..Len(gen.yielded) : Strip(gen.yielded[i]) # <<>>

\* text without its whitespace characters.
IgnoreWhitespace(text) == SelectSeq(text, LAMBDA c : c \notin Whitespace)

\* A streaming request has come to its end with nothing raised.
Streamed == gen.pc = "done" /\ gen.stream /\ gen.failure = NoFailure

\* C11 as stated: a streaming request that has ended has yielded at least
\* one fragment, and the fragments joined equal, whitespace aside, what the
\* same backend answer yields without streaming.
C11_Original ==
    Streamed =>
        /\ gen.yielded # <<>>
        /\ IgnoreWhitespace(Concat(gen.yielded))
             = IgnoreWhitespace(YieldWhole(gen.sent)[1])

\* C11: the fragments of a streaming request that has ended, joined, equal
\* whitespace aside what the same backend answer yields without streaming;
\* there is at least one fragment when that answer has a character that is
\* not whitespace.
C11_StreamEqualsBatch ==
    Streamed =>
        /\ IgnoreWhitespace(Concat(gen.yielded))
             = IgnoreWhitespace(YieldWhole(gen.sent)[1])
        /\ IgnoreWhitespace(YieldWhole(gen.sent)[1]) # <<>>
             => gen.yielded # <<>>

\* C11 witness: a stream of two chunks has ended, one chunk of whitespace
\* dropped and one with text yielded
C11_Witness ==
    /\ Streamed
    /\ Len(gen.sent) = 2
    /\ Len(gen.yielded) = 1
    /\ IgnoreWhitespace(gen.yielded[1]) # <<>>

\* /generate-with-context has started its stream and nothing has run yet.
ContextBuilt == gen.pc = "search" /\ gen.wrapped

\* The sections the request's files and successful fetches give.
FetchedSections(call) ==
    {<<"file", call.files[i]>> : i \in {j \in 1..Len(call.files) :
                                          call.files[j] = "txt"}}
    \cup {<<"url", call.urls[i]>> : i \in {j \in 1..Len(call.urls) :
                                            call.outcomes[j] = "ok"}}

\* C12: the ephemeral store of /generate-with-context holds exactly the
\* readable files and the pages fetched with status 200, a fetch that
\* raised or had another status adding nothing; the request is answered
\* with an error only when building the store fails, never for a failed
\* fetch; and with no file read and every fetch failed there is no store,
\* and retrieval hands on no document and an empty context.
C12_FailedFetches ==
    /\ ContextBuilt => gen.index = FetchedSections(gen.call)
    /\ gen.pc = "rejected" =>
          (~gen.call.embedOk /\ FetchedSections(gen.call) # {})
    /\ (gen.pc = "enhance" /\ gen.wrapped /\ gen.index = {}) =>
          /\ gen.docs = <<>>
          /\ gen.failure = NoFailure
          /\ "context" \in gen.enhanced => gen.context = <<>>

\* C12 witness: of two URLs the first fetch failed and the second
\* succeeded, and the stream has started on a store of the second page
C12_Witness ==
    /\ ContextBuilt
    /\ Len(gen.call.urls) = 2
    /\ gen.call.outcomes[1] # "ok"
    /\ gen.call.outcomes[2] = "ok"
    /\ gen.call.files = <<>>
    /\ gen.index = {<<"url", gen.call.urls[2]>>}

\* The sections of the readable files, in the order of the request.
FileSections(call) ==
    SelectSeq([i \in 1..Len(call.files) |-> <<"file", call.files[i]>>],
              LAMBDA section : section[2] = "txt")

\* The sections of the pages fetched with status 200, in the order the
\* request gives their URLs.
UrlSections(call) ==
    LET fetched == SelectSeq([i \in 1..Len(call.urls) |->
                                 <<call.urls[i], call.outcomes[i]>>],
                             LAMBDA page : page[2] = "ok")
    IN [i \in 1..Len(fetched) |-> <<"url", fetched[i][1]>>]

\* C22: whatever the order in which the concurrent fetches of
\* /generate-with-context complete, the context is the file sections
\* followed by the pages in the order their URLs were supplied, and the
\* ephemeral store holds the chunks of that context.
C22_SuppliedOrder ==
    ContextBuilt =>
        LET supplied == FileSections(gen.call) \o UrlSections(gen.call)
        IN /\ gen.call.context = supplied
           /\ gen.index = {supplied[i] : i \in 1..Len(supplied)}

\* C22 witness: a file and two URLs, the fetch of the second URL completing
\* before the fetch of the first, both with status 200, and a context with
\* the first page before the second
C22_Witness ==
    /\ ContextBuilt
    /\ gen.call.files = <<"txt">>
    /\ Len(gen.call.urls) = 2
    /\ gen.call.outcomes = <<"ok", "ok">>
    /\ gen.call.order = <<2, 1>>
    /\ gen.call.context = <<<<"file", "txt">>, <<"url", gen.call.urls[1]>>,
                            <<"url", gen.call.urls[2]>>>>

\* C13 as stated: a request whose retrieval failed, in the knowledge-base
\* store or in the ephemeral one, goes on with no document, and no request
\* ends with the failure of its retrieval.
C13_RetrievalDegrades ==
    /\ (gen.pc = "enhance" /\ "retrieval" \in gen.swallowed) =>
          gen.docs = <<>>
    /\ gen.pc \in {"done", "failed"} =>
          /\ gen.failure # [at |-> "retrieval"]
          /\ \A i \in 1..Len(gen.events) :
                gen.events[i] # [kind |-> "error", data |-> "retrieval"]

\* C14 as stated: a request whose preference read failed goes on with an
\* empty preference list, and no request ends with the failure of its
\* preference read, be it the query or the construction of the store's
\* manager.
C14_PreferencesSoft ==
    /\ (/\ gen.pc = "enhance"
        /\ gen.enhanced = {"preferences"}
        /\ "preferences" \in gen.swallowed) => gen.preferences = <<>>
    /\ gen.pc \in {"done", "failed"} =>
          /\ gen.failure # [at |-> "preferences"]
          /\ \A i \in 1..Len(gen.events) :
                gen.events[i] # [kind |-> "error", data |-> "preferences"]

\* A request has ended with its classifier raising.
ClassifierFailed ==
    gen.pc \in {"done", "failed"} /\ gen.failure = [at |-> "classifier"]

\* C15: a request whose classifier raised has called the classifier once,
\* has ended with that exception at its caller, and has made no search, no
\* preference read and no backend call; and the classifier's exception ends
\* the request wherever it is raised.
C15_ClassifierFailFast ==
    /\ ClassifierFailed =>
          /\ gen.pc = "failed"
          /\ gen.calls = [classify |-> 1, search |-> 0, preferences |-> 0,
                          backend |-> 0]
          /\ gen.yielded = <<>>
    /\ (gen.pc \notin {"idle", "rejected", "answered", "classify"}
          /\ gen.pipe = "kb" /\ ~ClassifierFailed) => gen.calls.classify = 1

\* C15 witness: generate_text has ended with the exception of its
\* classifier
C15_Witness ==
    /\ ClassifierFailed
    /\ gen.pipe = "kb"
    /\ gen.calls.classify = 1

\* C17 as stated: an answer of POST /generate comes after the pipeline:
\* with status 200 it carries the text the pipeline yielded, classifier,
\* search, preference read and backend call all made; otherwise it has
\* status 500.
C17_GenerateBlocks ==
    gen.pc = "answered" =>
        \/ /\ gen.response.status = 200
           /\ gen.calls.classify = 1
           /\ gen.calls.search = 1
           /\ gen.calls.preferences >= 1
           /\ gen.calls.backend = 1
           /\ gen.yielded # <<>>
           /\ gen.response.body = gen.yielded[1]
        \/ /\ gen.response.status = 500
           /\ gen.calls.classify >= 1

\* The steps of a request.
Steps == {"classify", "search", "preferences", "backend"}

\* C20 as stated: in a request each step is made once and in the order
\* classification, retrieval, preference read, prompt, backend; the
\* classifier has been called when the search is, the search is over when
\* preferences are read, the prompt is assembled from one preference read,
\* and the backend is called once, after the prompt.
C20_StepsOnce ==
    gen.pc \notin {"idle", "rejected", "answered"} =>
        /\ \A step \in Steps : gen.calls[step] <= 1
        /\ (gen.pipe = "kb" /\ gen.calls.search = 1) => gen.calls.classify = 1
        /\ gen.calls.preferences >= 1 => gen.pc \notin {"classify", "search"}
        /\ gen.pc = "prompted" =>
              /\ gen.calls.preferences = 1
              /\ gen.calls.backend = 0
        /\ gen.calls.backend = 1 => gen.pc \in {"streaming", "done", "failed"}

----------------------------------------------------------------------------
(* Claims about the endpoints of the preference store *)

\* A /record-edit request has been answered.
EditPosted == EditDone /\ "endpoint" \in DOMAIN lastOp

\* C16 as stated: a /record-edit request with different texts and
\* text_type c, whose summary was made and whose saves the database
\* accepted, is answered with the success acknowledgment and has appended
\* the record under c and, for c other than "general", its duplicate under
\* "general"; with text_type left out, the record under "general" only.
C16_RecordEditCategory ==
    (/\ EditPosted
     /\ lastOp.original # lastOp.edited
     /\ lastOp.outcome = "returned"
     /\ lastOp.saved1) =>
        LET c == IF lastOp.requested = NoTextType THEN General
                 ELSE lastOp.requested
        IN /\ lastOp.response = [status |-> 200, body |-> "success"]
           /\ \E i \in (Len(lastOp.before) + 1)..Len(prefTable) :
                 prefTable[i] = PreferenceRecord(DefaultUser, c,
                                                 "llm_analysis", lastOp.summary)
           /\ c # General =>
                 \E i \in (Len(lastOp.before) + 1)..Len(prefTable) :
                    prefTable[i] = PreferenceRecord(DefaultUser, General,
                                                    "llm_analysis",
                                                    lastOp.summary)

\* get_preferences has returned the result of its query.
PreferencesRead ==
    /\ lastOp.op = "get_preferences"
    /\ lastOp.outcome = "returned"
    /\ lastOp.queried

\* The rows of the pair asked for, by their place in the table.
RowsAsked ==
    {i \in 1..Len(lastOp.before) :
        /\ lastOp.before[i].user_id = lastOp.user_id
        /\ lastOp.before[i].text_type = lastOp.text_type}

NthAsked(k) ==
    CHOOSE i \in RowsAsked : Cardinality({j \in RowsAsked : j < i}) = k - 1

\* C18 as stated: get_preferences returns the value of each record of the
\* (user, category) pair asked for and of no other record, one entry per
\* record, in the order the records were appended.
C18_StorageOrder ==
    PreferencesRead =>
        /\ Len(lastOp.result) = Cardinality(RowsAsked)
        /\ \A k \in 1..Len(lastOp.result) :
              lastOp.result[k] = lastOp.before[NthAsked(k)].preference_value

====
